---- MODULE Spec2Model ----
(***************************************************************************)
(* Canon CR3 container/codec layer of rawloader:                           *)
(*   src/src/decoders/bmff.rs  Bmff::compatible_brand                      *)
(*   src/src/decoders/cr3.rs   read_box, parse_craw_header,                *)
(*                             decode_raw_image, image / find_craw_box     *)
(* Buffers are sequences of bytes (0..255), 1-indexed; a cursor position   *)
(* p is the 0-based offset of the next byte, i.e. buffer[p+1].             *)
(***************************************************************************)
EXTENDS Integers, Sequences, FiniteSets, TLC

VARIABLES
    buffer,       \* the byte buffer (Cr3Decoder.buffer / Bmff.reader's data)
    cursor,       \* position of the Cursor over buffer
    pc,           \* position of the running call
    stack,        \* find_craw_box activation records, innermost last
    craw_header,  \* the CrawHeader found by the walker (or NoHeader)
    dummy,        \* image()'s dummy argument
    camera,       \* the Camera record resolved by image()
    result,       \* what image() returned
    stages,       \* history: the stages of image() that succeeded, in order
    rejected,     \* history: the read_box errors met during the box search
    lastStep,     \* history: the last iteration of the walker's loop
    ret,          \* the value returned by the last direct call of a function
    arg           \* history: the arguments of the direct calls made so far

vars == <<buffer, cursor, pc, stack, craw_header, dummy, camera, result,
          stages, rejected, lastStep, ret, arg>>

(***************************************************************************)
(* Bytes and tags                                                          *)
(***************************************************************************)
BOX_TYPE_CRAW == <<67, 82, 65, 87>>
BOX_TYPE_MOOV == <<109, 111, 111, 118>>
BOX_TYPE_TRAK == <<116, 114, 97, 107>>
BOX_TYPE_MDIA == <<109, 100, 105, 97>>
BOX_TYPE_MINF == <<109, 105, 110, 102>>
BOX_TYPE_STBL == <<115, 116, 98, 108>>
BOX_TYPE_UUID == <<117, 117, 105, 100>>
TAG_ftyp == <<102, 116, 121, 112>>
TAG_free == <<102, 114, 101, 101>>

u32_from_be_bytes(b) == ((b[1] * 256 + b[2]) * 256 + b[3]) * 256 + b[4]

u16_from_le_bytes(b) == b[1] + 256 * b[2]

\* The big-endian encoding of n, used to build input buffers.
be32(n) == <<(n \div 16777216) % 256, (n \div 65536) % 256, (n \div 256) % 256, n % 256>>

\* n filler bytes, used to build input buffers.
Filler(n) == [i \in 1..n |-> 0]

\* The first n bytes of s (all of s when it is shorter).
Take(s, n) == SubSeq(s, 1, IF n < Len(s) THEN n ELSE Len(s))

\* Cursor<&[u8]>::read_exact of n bytes at position pos: the bytes and the
\* advanced position, or a failure that leaves the position at the end of the
\* data.
read_exact(buf, pos, n) ==
    IF n = 0 \/ pos + n <= Len(buf)
    THEN [ok |-> TRUE, bytes |-> SubSeq(buf, pos + 1, pos + n), pos |-> pos + n]
    ELSE [ok |-> FALSE, bytes |-> <<>>, pos |-> Len(buf)]

(***************************************************************************)
(* Cr3Decoder::read_box                                                    *)
(***************************************************************************)
BoxErr(msg, offset, size, pos) ==
    [ok |-> FALSE, err |-> msg, box_type |-> <<>>, size |-> size,
     offset |-> offset, data_offset |-> 0, pos |-> pos]

\* read_box without the "Basic size validation" of lines 116-119.
read_box_no_min_size(buf, pos) ==
    LET offset == pos
        rs == read_exact(buf, pos, 4)
        rt == read_exact(buf, rs.pos, 4)
        size == u32_from_be_bytes(rs.bytes)
        isUuid == rt.bytes = BOX_TYPE_UUID
        ru == read_exact(buf, rt.pos, 16)
    IN  IF ~rs.ok THEN BoxErr("Failed to read box size", offset, 0, rs.pos)
        ELSE IF ~rt.ok THEN BoxErr("Failed to read box type", offset, 0, rt.pos)
        ELSE IF size = 1
             THEN BoxErr("Large boxes not supported yet", offset, size, rt.pos)
        ELSE IF isUuid /\ ~ru.ok THEN BoxErr("Failed to read UUID", offset, size, ru.pos)
        ELSE IF offset + size > Len(buf)
             THEN BoxErr("Box extends beyond file end", offset, size,
                         IF isUuid THEN ru.pos ELSE rt.pos)
        ELSE [ok |-> TRUE, err |-> "", box_type |-> rt.bytes, size |-> size,
              offset |-> offset,
              data_offset |-> IF isUuid THEN rt.pos + 16 ELSE rt.pos,
              pos |-> IF isUuid THEN ru.pos ELSE rt.pos]

read_box(buf, pos) ==
    LET offset == pos
        rs == read_exact(buf, pos, 4)
        rt == read_exact(buf, rs.pos, 4)
        size == u32_from_be_bytes(rs.bytes)
        isUuid == rt.bytes = BOX_TYPE_UUID
        ru == read_exact(buf, rt.pos, 16)
    IN  IF ~rs.ok THEN BoxErr("Failed to read box size", offset, 0, rs.pos)
        ELSE IF ~rt.ok THEN BoxErr("Failed to read box type", offset, 0, rt.pos)
        ELSE IF size = 1
             THEN BoxErr("Large boxes not supported yet", offset, size, rt.pos)
        ELSE IF isUuid /\ ~ru.ok THEN BoxErr("Failed to read UUID", offset, size, ru.pos)
        ELSE IF size < 8
             THEN BoxErr("Invalid box size", offset, size, IF isUuid THEN ru.pos ELSE rt.pos)
        ELSE IF offset + size > Len(buf)
             THEN BoxErr("Box extends beyond file end", offset, size,
                         IF isUuid THEN ru.pos ELSE rt.pos)
        ELSE [ok |-> TRUE, err |-> "", box_type |-> rt.bytes, size |-> size,
              offset |-> offset,
              data_offset |-> IF isUuid THEN rt.pos + 16 ELSE rt.pos,
              pos |-> IF isUuid THEN ru.pos ELSE rt.pos]

(***************************************************************************)
(* Values of the variables a specification does not use                    *)
(***************************************************************************)
NoEnd == -1
NoHeader == [width |-> 0, height |-> 0, bit_depth |-> 0, components |-> 0,
             component_bit_depth |-> 0]
NoResult == [kind |-> "none", err |-> "", width |-> 0, height |-> 0, image |-> <<>>]
NoStep == [kind |-> "none", offset |-> 0, end_pos |-> NoEnd, depth |-> 0]
NoRet == [ok |-> FALSE]

Idle ==
    /\ stack = <<>>
    /\ craw_header = NoHeader
    /\ dummy = FALSE
    /\ camera = "none"
    /\ result = NoResult
    /\ stages = <<>>
    /\ rejected = {}
    /\ lastStep = NoStep
    /\ ret = NoRet

(***************************************************************************)
(* SpecReadBox: read_box called once on a bounded set of buffers           *)
(***************************************************************************)
MaxBoxBytes == 32

ReadBoxSizes == {0, 1, 2, 7, 8, 9, 16, 24, 25, 33}
ReadBoxTags == {BOX_TYPE_MOOV, BOX_TYPE_UUID, BOX_TYPE_CRAW, TAG_free}
ReadBoxLens == {0, 3, 4, 7, 8, 9, 16, 23, 24, 25, MaxBoxBytes}
ReadBoxPads == {0, 8}

InitReadBox ==
    /\ \E size \in ReadBoxSizes, tag \in ReadBoxTags, n \in ReadBoxLens, pad \in ReadBoxPads :
          /\ buffer = Filler(pad) \o Take(be32(size) \o tag \o Filler(MaxBoxBytes), n)
          /\ cursor = pad
    /\ pc = "read_box"
    /\ arg = <<>>
    /\ Idle

CallReadBox ==
    /\ pc = "read_box"
    /\ arg' = <<cursor>>
    /\ ret' = read_box(buffer, cursor)
    /\ cursor' = ret'.pos
    /\ pc' = "returned"
    /\ UNCHANGED <<buffer, stack, craw_header, dummy, camera, result, stages,
                   rejected, lastStep>>

NextReadBox == CallReadBox

SpecReadBox == InitReadBox /\ [][NextReadBox]_vars

\* The position read_box was called at.
CallPos == arg[1]

\* The 8 header bytes at that position are in the buffer.
HeaderReadable == CallPos + 8 <= Len(buffer)

\* The size field and the type tag of that header, decoded from the buffer.
HeaderSize == u32_from_be_bytes(SubSeq(buffer, CallPos + 1, CallPos + 4))
HeaderType == SubSeq(buffer, CallPos + 5, CallPos + 8)

\* C5 (as stated): read_box returns a Box only if size >= 8, offset+size <=
\* buffer length and data_offset >= offset+8, and every header whose size field
\* is below 8 yields the invalid-size / out-of-bounds error.
C5_AsStated ==
    pc = "returned" =>
        /\ ret.ok => /\ ret.size >= 8
                     /\ CallPos + ret.size <= Len(buffer)
                     /\ ret.data_offset >= CallPos + 8
        /\ (HeaderReadable /\ HeaderSize < 8) =>
               /\ ~ret.ok
               /\ ret.err \in {"Invalid box size", "Box extends beyond file end"}

\* C5 (amended): read_box returns a Box only if the declared size is >= 8,
\* offset+size <= buffer length and data_offset >= offset+8 (the Box carrying
\* the header's own size, type and offset); a header whose size field is below
\* 8 never parses: it yields the large-box error when the size field is 1,
\* the UUID read error when the type is uuid and fewer than 16 bytes follow
\* the header, and the invalid-size error otherwise.
C5_ReadBoxValidates ==
    pc = "returned" =>
        /\ ret.ok => /\ HeaderReadable
                     /\ ret.size = HeaderSize /\ ret.box_type = HeaderType
                     /\ ret.offset = CallPos
                     /\ ret.size >= 8
                     /\ CallPos + ret.size <= Len(buffer)
                     /\ ret.data_offset >= CallPos + 8
        /\ (HeaderReadable /\ HeaderSize < 8) =>
               /\ ~ret.ok
               /\ ret.err = IF HeaderSize = 1 THEN "Large boxes not supported yet"
                            ELSE IF HeaderType = BOX_TYPE_UUID /\ CallPos + 24 > Len(buffer)
                                 THEN "Failed to read UUID"
                                 ELSE "Invalid box size"

\* A header with a size field below 8 (and not the large-box escape) was read
\* and rejected for its size.
C5_Witness ==
    /\ pc = "returned" /\ HeaderReadable /\ HeaderSize = 7
    /\ ~ret.ok /\ ret.err = "Invalid box size"

(***************************************************************************)
(* Cr3Decoder::parse_craw_header                                           *)
(***************************************************************************)
\* The validation of lines 146-155 with the upper limit of the bit depth
\* one too high.
craw_header_error_33(width, height, bit_depth, components) ==
    IF width = 0 \/ height = 0 THEN "Invalid CRAW dimensions"
    ELSE IF bit_depth = 0 \/ bit_depth > 33 THEN "Invalid CRAW bit depth"
    ELSE IF components = 0 THEN "Invalid CRAW components"
    ELSE ""

\* "Validate header values": the error of the first check that fails, "" when
\* all pass.
craw_header_error(width, height, bit_depth, components) ==
    IF width = 0 \/ height = 0 THEN "Invalid CRAW dimensions"
    ELSE IF bit_depth = 0 \/ bit_depth > 32 THEN "Invalid CRAW bit depth"
    ELSE IF components = 0 THEN "Invalid CRAW components"
    ELSE ""

parse_craw_header(buf, pos) ==
    LET rh == read_exact(buf, pos, 28)
        header == rh.bytes
        width == u32_from_be_bytes(SubSeq(header, 1, 4))
        height == u32_from_be_bytes(SubSeq(header, 5, 8))
        bit_depth == header[9]
        components == header[10]
        component_bit_depth == header[11]
    IN  IF ~rh.ok
        THEN [ok |-> FALSE, err |-> "Failed to read CRAW header", header |-> NoHeader,
              pos |-> rh.pos]
        ELSE IF craw_header_error(width, height, bit_depth, components) # ""
        THEN [ok |-> FALSE, err |-> craw_header_error(width, height, bit_depth, components),
              header |-> NoHeader, pos |-> rh.pos]
        ELSE [ok |-> TRUE, err |-> "",
              header |-> [width |-> width, height |-> height, bit_depth |-> bit_depth,
                          components |-> components,
                          component_bit_depth |-> component_bit_depth],
              pos |-> rh.pos]

(***************************************************************************)
(* Cr3Decoder::decode_raw_image                                            *)
(***************************************************************************)
\* alloc_image_plain!(width, height, dummy): the image-allocation collaborator,
\* a buffer of width*height zero samples.
alloc_image_plain(width, height, is_dummy) == [i \in 1..(width * height) |-> 0]

\* The pixel read as a big-endian u16.
pixel_value_be(row_data, pixel_offset, bytes_per_pixel) ==
    IF bytes_per_pixel = 1 THEN row_data[pixel_offset + 1]
    ELSE row_data[pixel_offset + 1] * 256 + row_data[pixel_offset + 2]

\* "Read pixel value based on bit depth", for bytes_per_pixel 1 or 2.
pixel_value(row_data, pixel_offset, bytes_per_pixel) ==
    IF bytes_per_pixel = 1 THEN row_data[pixel_offset + 1]
    ELSE u16_from_le_bytes(<<row_data[pixel_offset + 1], row_data[pixel_offset + 2]>>)

\* The loop over the rows, from row `row` on.
RECURSIVE decode_rows(_, _, _, _, _, _, _)
decode_rows(buf, pos, width, height, bytes_per_pixel, row, image) ==
    IF row >= height THEN [ok |-> TRUE, err |-> "", image |-> image, pos |-> pos]
    ELSE LET rr == read_exact(buf, pos, width * bytes_per_pixel)
             row_data == rr.bytes
         IN  IF ~rr.ok
             THEN [ok |-> FALSE, err |-> "Failed to read raw data", image |-> <<>>,
                   pos |-> rr.pos]
             ELSE IF width > 0 /\ bytes_per_pixel \notin {1, 2}
             THEN [ok |-> FALSE, err |-> "Unsupported bit depth", image |-> <<>>,
                   pos |-> rr.pos]
             ELSE decode_rows(buf, rr.pos, width, height, bytes_per_pixel, row + 1,
                      [i \in 1..Len(image) |->
                          IF i - 1 \in (row * width)..(row * width + width - 1)
                          THEN pixel_value(row_data,
                                           (i - 1 - row * width) * bytes_per_pixel,
                                           bytes_per_pixel)
                          ELSE image[i]])

\* decode_raw_image from the row loop on (the non-dummy path).
decode_pixels(buf, pos, header) ==
    decode_rows(buf, pos, header.width, header.height,
                (header.bit_depth + 7) \div 8, 0,
                alloc_image_plain(header.width, header.height, FALSE))

\* decode_raw_image without the early return for dummy.
decode_raw_image_no_dummy(buf, pos, header, is_dummy) == decode_pixels(buf, pos, header)

decode_raw_image(buf, pos, header, is_dummy) ==
    IF is_dummy
    THEN [ok |-> TRUE, err |-> "",
          image |-> alloc_image_plain(header.width, header.height, is_dummy), pos |-> pos]
    ELSE decode_pixels(buf, pos, header)

(***************************************************************************)
(* SpecCraw: parse_craw_header, then decode_raw_image, on a cursor placed  *)
(* at the start of a CRAW payload                                          *)
(***************************************************************************)
MaxWidth == 2
MaxHeight == 2
MaxPixelBytes == 8

CrawWidths == 0..MaxWidth \cup {256}
CrawHeights == 0..MaxHeight
CrawBitDepths == {0, 1, 8, 9, 16, 17, 32, 33, 255}
CrawComponents == {0, 1, 3}
CrawPads == {0, 8}

Reserved == [i \in 1..17 |-> 170]

\* The i-th byte of the sample data: 0x34, 0x12, 0xF0, 0xCE, ...
PixelByte(i) == (52 + 222 * (i - 1)) % 256
PixelBytes(n) == [i \in 1..n |-> PixelByte(i)]

CrawPayload(width, height, bit_depth, components, n) ==
    be32(width) \o be32(height) \o <<bit_depth, components, 14>> \o Reserved
        \o PixelBytes(n)

InitCraw ==
    /\ \E width \in CrawWidths, height \in CrawHeights, bit_depth \in CrawBitDepths,
          components \in CrawComponents, pad \in CrawPads,
          n \in {0, 10, 27} \cup {28 + k : k \in 0..MaxPixelBytes} :
          /\ buffer = Filler(pad)
                        \o Take(CrawPayload(width, height, bit_depth, components,
                                            MaxPixelBytes), n)
          /\ cursor = pad
    /\ dummy \in BOOLEAN
    /\ pc = "parse_craw_header"
    /\ arg = <<>>
    /\ stack = <<>>
    /\ craw_header = NoHeader
    /\ camera = "none"
    /\ result = NoResult
    /\ stages = <<>>
    /\ rejected = {}
    /\ lastStep = NoStep
    /\ ret = NoRet

CallParseCrawHeader ==
    /\ pc = "parse_craw_header"
    /\ arg' = Append(arg, cursor)
    /\ ret' = parse_craw_header(buffer, cursor)
    /\ cursor' = ret'.pos
    /\ craw_header' = ret'.header
    /\ pc' = IF ret'.ok THEN "parsed" ELSE "parse_failed"
    /\ UNCHANGED <<buffer, stack, dummy, camera, result, stages, rejected, lastStep>>

CallDecodeRawImage ==
    /\ pc = "parsed"
    /\ arg' = Append(arg, cursor)
    /\ ret' = decode_raw_image(buffer, cursor, craw_header, dummy)
    /\ cursor' = ret'.pos
    /\ pc' = "decoded"
    /\ UNCHANGED <<buffer, stack, craw_header, dummy, camera, result, stages, rejected,
                   lastStep>>

NextCraw == CallParseCrawHeader \/ CallDecodeRawImage

SpecCraw == InitCraw /\ [][NextCraw]_vars

\* Where the CRAW payload starts and where decode_raw_image was called.
PayloadStart == arg[1]
DecodeStart == arg[2]

\* The fields of the 28-byte header at the payload start, decoded from the buffer.
RawWidth == u32_from_be_bytes(SubSeq(buffer, PayloadStart + 1, PayloadStart + 4))
RawHeight == u32_from_be_bytes(SubSeq(buffer, PayloadStart + 5, PayloadStart + 8))
RawBitDepth == buffer[PayloadStart + 9]
RawComponents == buffer[PayloadStart + 10]
RawComponentBitDepth == buffer[PayloadStart + 11]

\* C8: parse_craw_header returns a CrawHeader if and only if 28 bytes are
\* readable at the cursor, width > 0, height > 0, 1 <= bit_depth <= 32 and
\* components > 0; each violated condition fails with its own error; on success
\* every field is the value read from the bytes (big-endian width and height,
\* bytes 8, 9, 10).
C8_ParseCrawHeader ==
    pc \in {"parsed", "parse_failed"} =>
        IF PayloadStart + 28 > Len(buffer)
        THEN ~ret.ok /\ ret.err = "Failed to read CRAW header"
        ELSE /\ ret.ok <=> /\ RawWidth > 0 /\ RawHeight > 0
                           /\ 1 <= RawBitDepth /\ RawBitDepth <= 32
                           /\ RawComponents > 0
             /\ ret.ok => ret.header = [width |-> RawWidth, height |-> RawHeight,
                                        bit_depth |-> RawBitDepth,
                                        components |-> RawComponents,
                                        component_bit_depth |-> RawComponentBitDepth]
             /\ (RawWidth = 0 \/ RawHeight = 0) => ret.err = "Invalid CRAW dimensions"
             /\ (RawWidth > 0 /\ RawHeight > 0 /\ (RawBitDepth = 0 \/ RawBitDepth > 32))
                    => ret.err = "Invalid CRAW bit depth"
             /\ (RawWidth > 0 /\ RawHeight > 0 /\ 1 <= RawBitDepth /\ RawBitDepth <= 32
                    /\ RawComponents = 0)
                    => ret.err = "Invalid CRAW components"

\* A header with bit depth 33 and otherwise valid fields was rejected for its
\* bit depth.
C8_Witness ==
    /\ pc = "parse_failed" /\ PayloadStart + 28 <= Len(buffer)
    /\ RawWidth = 256 /\ RawHeight > 0 /\ RawBitDepth = 33 /\ RawComponents > 0
    /\ ret.err = "Invalid CRAW bit depth"

\* C6: with dummy set decode_raw_image reads nothing: for every validated
\* header and any number of bytes after it, it returns Ok with a buffer of
\* width*height samples, and the cursor stays where it was, at the payload
\* start plus the 28 header bytes.
C6_DummyReadsNothing ==
    (pc = "decoded" /\ dummy) =>
        /\ ret.ok
        /\ Len(ret.image) = craw_header.width * craw_header.height
        /\ \A i \in 1..Len(ret.image) : ret.image[i] = 0
        /\ cursor = DecodeStart
        /\ cursor = PayloadStart + 28

\* A dummy decode of a 16-bit image whose sample data is not all there.
C6_Witness ==
    /\ pc = "decoded" /\ dummy /\ ret.ok
    /\ craw_header.bit_depth = 16
    /\ Len(buffer) - DecodeStart < craw_header.width * craw_header.height * 2
    /\ Len(ret.image) = 4

BytesPerPixel == (craw_header.bit_depth + 7) \div 8
BytesNeeded == craw_header.width * craw_header.height * BytesPerPixel

\* The sample at index i (0-based) of the data that starts at DecodeStart.
SampleAt(i) ==
    IF BytesPerPixel = 1 THEN buffer[DecodeStart + i + 1]
    ELSE buffer[DecodeStart + 2 * i + 1] + 256 * buffer[DecodeStart + 2 * i + 2]

\* C7: a non-dummy decode with bytes_per_pixel in {1,2} and at least
\* width*height*bytes_per_pixel bytes after the cursor returns exactly
\* width*height samples, sample row*width+col being the byte at that index
\* (1 byte/pixel) or the little-endian u16 at twice that index (2 bytes/pixel);
\* with fewer bytes it returns an error and no pixel buffer.
C7_DecodePixels ==
    (pc = "decoded" /\ ~dummy /\ BytesPerPixel \in {1, 2}) =>
        IF Len(buffer) - DecodeStart >= BytesNeeded
        THEN /\ ret.ok
             /\ Len(ret.image) = craw_header.width * craw_header.height
             /\ \A row \in 0..(craw_header.height - 1), col \in 0..(craw_header.width - 1) :
                    ret.image[row * craw_header.width + col + 1]
                        = SampleAt(row * craw_header.width + col)
        ELSE ~ret.ok /\ ret.image = <<>>

\* A 2x2 image of 16-bit samples was decoded; its first sample is 0x1234.
C7_Witness ==
    /\ pc = "decoded" /\ ~dummy /\ ret.ok
    /\ craw_header.width = 2 /\ craw_header.height = 2 /\ craw_header.bit_depth = 16
    /\ ret.image[1] = 4660

(***************************************************************************)
(* Bmff::compatible_brand                                                  *)
(***************************************************************************)
BRAND_crx == <<99, 114, 120, 32>>
BRAND_crx2 == <<99, 114, 120, 50>>
BRAND_iso2 == <<105, 115, 111, 50>>
BRAND_heic == <<104, 101, 105, 99>>

\* The loop over the compatible brands: num_brands tags still to read at pos.
RECURSIVE read_compatible_brands(_, _, _, _)
read_compatible_brands(data, pos, num_brands, brand_bytes) ==
    IF num_brands = 0 THEN [found |-> FALSE, pos |-> pos]
    ELSE LET rb == read_exact(data, pos, 4)
         IN  IF ~rb.ok THEN [found |-> FALSE, pos |-> rb.pos]
             ELSE IF rb.bytes = brand_bytes THEN [found |-> TRUE, pos |-> rb.pos]
             ELSE read_compatible_brands(data, rb.pos, num_brands - 1, brand_bytes)

\* compatible_brand from the read of the ftyp box on, the reader at pos.
ftyp_has_brand(data, pos, brand_bytes) ==
    LET rs == read_exact(data, pos, 4)
        rt == read_exact(data, rs.pos, 4)
        rm == read_exact(data, rt.pos, 4)
        rv == read_exact(data, rm.pos, 4)
        box_size == u32_from_be_bytes(rs.bytes)
        num_brands == (box_size - 16) \div 4
    IN  IF ~rs.ok THEN [found |-> FALSE, pos |-> rs.pos]
        ELSE IF ~rt.ok THEN [found |-> FALSE, pos |-> rt.pos]
        ELSE IF ~rm.ok THEN [found |-> FALSE, pos |-> rm.pos]
        ELSE IF rt.bytes # TAG_ftyp THEN [found |-> FALSE, pos |-> rm.pos]
        ELSE IF rm.bytes = brand_bytes THEN [found |-> TRUE, pos |-> rm.pos]
        ELSE IF ~rv.ok THEN [found |-> FALSE, pos |-> rv.pos]
        ELSE IF box_size < 16 THEN [found |-> FALSE, pos |-> rv.pos]
        ELSE IF num_brands > 100 THEN [found |-> FALSE, pos |-> rv.pos]
        ELSE read_compatible_brands(data, rv.pos, num_brands, brand_bytes)

\* compatible_brand without the "Reset to start of file".
compatible_brand_no_seek(data, pos, brand_bytes) ==
    IF Len(brand_bytes) # 4 THEN [found |-> FALSE, pos |-> pos]
    ELSE ftyp_has_brand(data, pos, brand_bytes)

\* compatible_brand on a Bmff over data whose reader is at pos: the answer and
\* the reader's position afterwards.
compatible_brand(data, pos, brand_bytes) ==
    IF Len(brand_bytes) # 4 THEN [found |-> FALSE, pos |-> pos]
    ELSE ftyp_has_brand(data, 0, brand_bytes)

(***************************************************************************)
(* SpecBrand: any sequence of compatible_brand calls on one Bmff           *)
(***************************************************************************)
MaxBrands == 2

FtypSizes == {0, 12, 16, 19, 20, 24, 416, 420}
FtypTypes == {TAG_ftyp, TAG_free}
MajorBrands == {BRAND_crx2, BRAND_iso2}
CompatibleTags == {BRAND_crx, BRAND_iso2}
\* Brand arguments: of 4 bytes, and of 0, 3 and 5 bytes.
BrandArgs == {BRAND_crx, BRAND_crx2, BRAND_heic, <<>>, <<99, 114, 120>>,
              <<99, 114, 120, 50, 32>>}

RECURSIVE Flatten(_)
Flatten(tags) == IF tags = <<>> THEN <<>> ELSE Head(tags) \o Flatten(Tail(tags))

InitBrand ==
    /\ \E size \in FtypSizes, type \in FtypTypes, major \in MajorBrands,
          tags \in [1..MaxBrands -> CompatibleTags], n \in 0..(16 + 4 * MaxBrands) :
          buffer = Take(be32(size) \o type \o major \o Filler(4) \o Flatten(tags), n)
    /\ cursor = 0
    /\ pc = "bmff"
    /\ arg = <<>>
    /\ Idle

CallCompatibleBrand ==
    \E b \in BrandArgs :
        /\ arg' = <<b>>
        /\ ret' = [ok |-> compatible_brand(buffer, cursor, b).found]
        /\ cursor' = compatible_brand(buffer, cursor, b).pos
        /\ pc' = "called"
        /\ UNCHANGED <<buffer, stack, craw_header, dummy, camera, result, stages,
                       rejected, lastStep>>

NextBrand == CallCompatibleBrand

SpecBrand == InitBrand /\ [][NextBrand]_vars

\* The fields of the ftyp box, decoded from the data.
FtypSize == u32_from_be_bytes(SubSeq(buffer, 1, 4))
NumCompatible == (FtypSize - 16) \div 4
CompatibleTag(i) == SubSeq(buffer, 16 + 4 * (i - 1) + 1, 16 + 4 * i)

\* What the claim says compatible_brand(b) answers on the data.
BrandExpected(b) ==
    /\ Len(b) = 4
    /\ Len(buffer) >= 12
    /\ SubSeq(buffer, 5, 8) = TAG_ftyp
    /\ \/ SubSeq(buffer, 9, 12) = b
       \/ /\ Len(buffer) >= 16
          /\ FtypSize >= 16
          /\ NumCompatible <= 100
          /\ \E i \in 1..NumCompatible :
                /\ 16 + 4 * i <= Len(buffer)
                /\ CompatibleTag(i) = b

\* C9: after any sequence of earlier calls, compatible_brand(brand) is true
\* if and only if brand is 4 bytes, the data holds at least 12 bytes with type
\* 'ftyp', and the major brand is brand, or the minor version is readable, the
\* size is >= 16, n = (size-16)/4 <= 100 and one of the first n compatible
\* tags, fully readable, is brand.
C9_CompatibleBrand ==
    pc = "called" => (ret.ok <=> BrandExpected(arg[1]))

\* A call answered true for a compatible (not the major) brand, with the
\* reader left past the start of the data by the call.
C9_Witness ==
    /\ pc = "called" /\ ret.ok /\ arg[1] = BRAND_crx
    /\ SubSeq(buffer, 9, 12) # BRAND_crx
    /\ cursor = 24

(***************************************************************************)
(* Decoder::image and its box walker find_craw_box                         *)
(***************************************************************************)
is_container_box(box_type) ==
    \/ box_type = BOX_TYPE_MOOV
    \/ box_type = BOX_TYPE_TRAK
    \/ box_type = BOX_TYPE_MDIA
    \/ box_type = BOX_TYPE_MINF
    \/ box_type = BOX_TYPE_STBL
    \/ box_type = BOX_TYPE_UUID

\* The bound check with > for >=.
reached_end_gt(offset, end_pos) == end_pos # NoEnd /\ offset > end_pos

\* "Check if we've reached the container's end".
reached_end(offset, end_pos) == end_pos # NoEnd /\ offset >= end_pos

ImageErr(msg) == [kind |-> "Err", err |-> msg, width |-> 0, height |-> 0, image |-> <<>>]

\* A missing CRAW box answered with an image of default dimensions.
no_craw_box_default == [kind |-> "RawImage", err |-> "", width |-> 6000, height |-> 4000,
                        image |-> <<>>]

\* craw_header.ok_or("Could not find CRAW box")? on None.
no_craw_box == ImageErr("Could not find CRAW box")

\* ok_image(camera, width, height, wb_coeffs, image): the assembled RawImage.
ok_image(width, height, image) ==
    [kind |-> "RawImage", err |-> "", width |-> width, height |-> height, image |-> image]

\* An activation record of find_craw_box: where the call started, its end_pos
\* argument, the container box of the calling iteration (box_end is where the
\* caller seeks when the call returns None), and the number of boxes the call
\* has read so far.
Frame(start, end_pos, box_end) ==
    [start |-> start, end_pos |-> end_pos, box_end |-> box_end, iter |-> 0]

Top == stack[Len(stack)]
Pop == SubSeq(stack, 1, Len(stack) - 1)
Counted == [stack EXCEPT ![Len(stack)].iter = @ + 1]

\* The call of image(): the camera is resolved (check_supported on a TIFF
\* tree, or the Canon fallback without one), its metadata extracted, and the
\* search starts at offset 0 without a bound.
ImageStart ==
    /\ pc = "start"
    /\ \E tiff \in {"absent", "supported", "unsupported"}, d \in BOOLEAN :
          /\ dummy' = d
          /\ IF tiff = "unsupported"
             THEN /\ result' = ImageErr("check_supported failed")
                  /\ pc' = "done"
                  /\ UNCHANGED <<camera, stages, stack>>
             ELSE /\ camera' = IF tiff = "absent" THEN "Canon EOS CR3" ELSE "from TIFF"
                  /\ stages' = <<"camera">>
                  /\ stack' = <<Frame(0, NoEnd, NoEnd)>>
                  /\ pc' = "find_craw_box"
                  /\ UNCHANGED result
    /\ cursor' = 0
    /\ UNCHANGED <<buffer, craw_header, rejected, lastStep, ret, arg>>

\* find_craw_box returns Ok(None): the caller seeks to the end of its box and
\* goes on with its loop, or, when it is image(), fails.
ReturnNone ==
    IF Len(stack) = 1
    THEN /\ stack' = <<>>
         /\ result' = no_craw_box
         /\ pc' = "done"
         /\ cursor' = read_box(buffer, cursor).pos
    ELSE /\ stack' = Pop
         /\ cursor' = Top.box_end
         /\ UNCHANGED <<result, pc>>

\* while let Ok(..) = read_box(cursor): the read fails and the loop ends.
WalkReadFails ==
    /\ pc = "find_craw_box"
    /\ \E box_header \in {read_box(buffer, cursor)} :
           /\ ~box_header.ok
           /\ rejected' = rejected \cup {box_header.err}
           /\ lastStep' = [kind |-> "read_failed", offset |-> box_header.offset,
                           end_pos |-> Top.end_pos, depth |-> Len(stack)]
    /\ ReturnNone
    /\ UNCHANGED <<buffer, craw_header, dummy, camera, stages, ret, arg>>

\* The box starts at or after end_pos: break.
WalkReachedEnd ==
    /\ pc = "find_craw_box"
    /\ \E box_header \in {read_box(buffer, cursor)} :
           /\ box_header.ok
           /\ reached_end(box_header.offset, Top.end_pos)
           /\ lastStep' = [kind |-> "break", offset |-> box_header.offset,
                           end_pos |-> Top.end_pos, depth |-> Len(stack)]
    /\ ReturnNone
    /\ UNCHANGED <<buffer, craw_header, dummy, camera, stages, rejected, ret, arg>>

\* The box is the CRAW box: seek to its data, parse the header there, and
\* return it (or the parse error) through every caller up to image().
WalkFoundCraw ==
    /\ pc = "find_craw_box"
    /\ \E box_header \in {read_box(buffer, cursor)} :
       \E parsed \in {parse_craw_header(buffer, box_header.data_offset)} :
           /\ box_header.ok
           /\ ~reached_end(box_header.offset, Top.end_pos)
           /\ box_header.box_type = BOX_TYPE_CRAW
           /\ lastStep' = [kind |-> "craw", offset |-> box_header.offset,
                           end_pos |-> Top.end_pos, depth |-> Len(stack)]
           /\ cursor' = parsed.pos
           /\ stack' = <<>>
           /\ IF parsed.ok
              THEN /\ craw_header' = parsed.header
                   /\ stages' = stages \o <<"craw_box", "craw_header">>
                   /\ pc' = "decode_raw_image"
                   /\ UNCHANGED result
              ELSE /\ result' = ImageErr(parsed.err)
                   /\ stages' = Append(stages, "craw_box")
                   /\ pc' = "done"
                   /\ UNCHANGED craw_header
    /\ UNCHANGED <<buffer, dummy, camera, rejected, ret, arg>>

\* The box is a container of more than 8 bytes: seek to its data and search
\* it, bounded by the end of the box.
WalkEnterContainer ==
    /\ pc = "find_craw_box"
    /\ \E box_header \in {read_box(buffer, cursor)} :
       \E box_end \in {box_header.offset + box_header.size} :
           /\ box_header.ok
           /\ ~reached_end(box_header.offset, Top.end_pos)
           /\ box_header.box_type # BOX_TYPE_CRAW
           /\ box_header.size > 8 /\ is_container_box(box_header.box_type)
           /\ lastStep' = [kind |-> "enter", offset |-> box_header.offset,
                           end_pos |-> Top.end_pos, depth |-> Len(stack)]
           /\ cursor' = box_header.data_offset
           /\ stack' = Append(Counted, Frame(box_header.data_offset, box_end, box_end))
    /\ UNCHANGED <<buffer, pc, craw_header, dummy, camera, result, stages, rejected,
                   ret, arg>>

\* Any other box: "Skip to next box".
WalkSkipBox ==
    /\ pc = "find_craw_box"
    /\ \E box_header \in {read_box(buffer, cursor)} :
       \E box_end \in {box_header.offset + box_header.size} :
           /\ box_header.ok
           /\ ~reached_end(box_header.offset, Top.end_pos)
           /\ box_header.box_type # BOX_TYPE_CRAW
           /\ ~(box_header.size > 8 /\ is_container_box(box_header.box_type))
           /\ lastStep' = [kind |-> "skip", offset |-> box_header.offset,
                           end_pos |-> Top.end_pos, depth |-> Len(stack)]
           /\ cursor' = box_end
           /\ stack' = Counted
    /\ UNCHANGED <<buffer, pc, craw_header, dummy, camera, result, stages, rejected,
                   ret, arg>>

\* The header was found: decode the pixels and assemble the RawImage.
ImageDecode ==
    /\ pc = "decode_raw_image"
    /\ \E decoded \in {decode_raw_image(buffer, cursor, craw_header, dummy)} :
           /\ cursor' = decoded.pos
           /\ IF decoded.ok
              THEN /\ result' = ok_image(craw_header.width, craw_header.height,
                                         decoded.image)
                   /\ stages' = Append(stages, "pixels")
              ELSE /\ result' = ImageErr(decoded.err)
                   /\ UNCHANGED stages
    /\ pc' = "done"
    /\ UNCHANGED <<buffer, stack, craw_header, dummy, camera, rejected, lastStep, ret, arg>>

(***************************************************************************)
(* Spec: one call of image() on a bounded set of buffers                   *)
(***************************************************************************)
NumSlots == 2

SlotSizes == {0, 1, 8, 16, 24}
SlotTags == {BOX_TYPE_MOOV, BOX_TYPE_UUID, BOX_TYPE_CRAW, TAG_free}
Slots == {be32(size) \o tag : size \in SlotSizes, tag \in SlotTags}

\* A CRAW box with a one-row payload of n sample bytes.
CrawBox(width, bit_depth, n) ==
    be32(36 + n) \o BOX_TYPE_CRAW \o CrawPayload(width, 1, bit_depth, 3, n)

\* What follows the slots: a CRAW box that decodes, one whose samples are cut
\* short, or a box of another type. (A CRAW slot takes its header from the
\* bytes of whatever follows it, which is how invalid headers arise.)
Tails == {CrawBox(2, 8, 2), CrawBox(2, 16, 2), be32(8) \o TAG_free}

Init ==
    /\ \E slots \in [1..NumSlots -> Slots], tail \in Tails :
          buffer = Flatten(slots) \o tail
    /\ cursor = 0
    /\ pc = "start"
    /\ arg = <<>>
    /\ stack = <<>>
    /\ craw_header = NoHeader
    /\ dummy = FALSE
    /\ camera = "none"
    /\ result = NoResult
    /\ stages = <<>>
    /\ rejected = {}
    /\ lastStep = NoStep
    /\ ret = NoRet

Next ==
    \/ ImageStart
    \/ WalkReadFails
    \/ WalkReachedEnd
    \/ WalkFoundCraw
    \/ WalkEnterContainer
    \/ WalkSkipBox
    \/ ImageDecode

Spec == Init /\ [][Next]_vars

\* A box was read in the last iteration of the walker's loop.
BoxWasRead == lastStep.kind \in {"break", "craw", "enter", "skip"}

\* C1: in a call of find_craw_box that has an end bound, a box whose start
\* offset is at or beyond the bound is never accepted as the CRAW match and
\* never entered; on reading it the call stops scanning and returns.
C1_BoundRespected ==
    (BoxWasRead /\ lastStep.end_pos # NoEnd /\ lastStep.offset >= lastStep.end_pos) =>
        /\ lastStep.kind = "break"
        /\ Len(stack) < lastStep.depth

\* A bounded call read a CRAW box that starts at its bound, inside the buffer,
\* and stopped there.
C1_Witness ==
    /\ lastStep.kind = "break"
    /\ lastStep.offset >= lastStep.end_pos
    /\ lastStep.offset + 8 <= Len(buffer)
    /\ SubSeq(buffer, lastStep.offset + 5, lastStep.offset + 8) = BOX_TYPE_CRAW

\* The errors of read_box that report a structural violation.
StructuralErrors == {"Invalid box size", "Box extends beyond file end",
                     "Large boxes not supported yet"}

\* C2: whenever read_box rejected a box during the search for a size below 8,
\* for offset+size beyond the buffer or for being a large box, at any depth,
\* image() returns an error and never a RawImage.
C2_StructuralViolationFatal ==
    (pc = "done" /\ rejected \cap StructuralErrors # {}) => result.kind = "Err"

\* C10: every call of find_craw_box on the stack searches a region inside
\* its caller's: it starts at or after the caller's start and at or before its
\* own bound, and its bound does not exceed the caller's bound.
C10_RegionContained ==
    \A i \in 2..Len(stack) :
        /\ stack[i].start >= stack[i - 1].start
        /\ stack[i].start <= stack[i].end_pos
        /\ stack[i - 1].end_pos # NoEnd => stack[i].end_pos <= stack[i - 1].end_pos

\* Each iteration leaves the cursor at least 8 bytes past the start of the box
\* it read, each nested call starts after the start of its container box, and
\* so a call reads at most len/8 boxes and the calls nest at most len/8 deep.
WalkProgress ==
    /\ \A i \in 1..Len(stack) : stack[i].iter <= Len(buffer) \div 8
    /\ Len(stack) <= Len(buffer) \div 8 + 1
    /\ (lastStep.kind = "skip" /\ Len(stack) = lastStep.depth)
           => cursor >= lastStep.offset + 8
    /\ lastStep.kind = "enter" => Top.start > lastStep.offset

\* C3: the box walker terminates on every buffer, whatever the boxes declare:
\* every iteration and every nested call makes progress, the number of boxes
\* a call reads and the depth of the recursion never exceed what the buffer
\* length allows (every step reads a box, enters a call or returns from one,
\* so no run is infinite), the call is never stuck before it has returned, and
\* it ends with an image or an error.
C3_WalkerTerminates ==
    /\ WalkProgress
    /\ pc = "done" \/ ENABLED Next
    /\ pc = "done" => (stack = <<>> /\ result.kind \in {"RawImage", "Err"})

\* A search that went two containers deep has ended without a CRAW box.
C3_Witness ==
    /\ pc = "done" /\ result = no_craw_box /\ stack = <<>>
    /\ SubSeq(buffer, 1, 16) = be32(24) \o BOX_TYPE_MOOV \o be32(16) \o BOX_TYPE_MOOV

AllStages == <<"camera", "craw_box", "craw_header", "pixels">>

\* C4: image() returns a RawImage only after the camera was resolved, the
\* CRAW box located, its header validated and the pixels decoded, in this
\* order; a failure at a stage returns that stage's error with no later stage
\* run; a search that ends without a CRAW box fails with the no-CRAW-box
\* error, never with default dimensions.
C4_StagesInOrder ==
    /\ (pc = "done") <=> (result.kind # "none")
    /\ pc = "done" => ~ENABLED Next
    /\ \E n \in 0..4 : stages = SubSeq(AllStages, 1, n)
    /\ result.kind = "RawImage" =>
          /\ stages = AllStages
          /\ result.width = craw_header.width /\ result.height = craw_header.height
          /\ craw_header # NoHeader
    /\ result.kind = "Err" =>
          /\ Len(stages) < 4
          /\ Len(stages) = 0 => result.err = "check_supported failed"
          /\ Len(stages) = 1 => result.err = "Could not find CRAW box"
          /\ Len(stages) = 2 => result.err \in {"Failed to read CRAW header",
                                                "Invalid CRAW dimensions",
                                                "Invalid CRAW bit depth",
                                                "Invalid CRAW components"}
          /\ Len(stages) = 3 => result.err \in {"Failed to read raw data",
                                                "Unsupported bit depth"}
    /\ (pc = "done" /\ lastStep.kind \in {"break", "read_failed"}) =>
          result = no_craw_box

\* The search ended without a CRAW box and image() failed with that error.
C4_Witness ==
    /\ pc = "done" /\ stages = <<"camera">>
    /\ lastStep.kind = "read_failed"
    /\ result.kind = "Err" /\ result.err = "Could not find CRAW box"
====
